---------------------------- MODULE Spec2Model ----------------------------
(***************************************************************************)
(* Model of postgrace.py: the MySQL -> PostgreSQL converter.               *)
(*                                                                         *)
(* Texts are TLA+ strings; a character is a string of length one.  The     *)
(* regular expressions of convert_mysql_to_postgresql are written as       *)
(* sequences of items and run by a backtracking matcher that tries the     *)
(* alternatives in the order Python's re module tries them (greedy:        *)
(* longest first, lazy: shortest first, an optional group: with the group  *)
(* first), so that the match found is the match re finds.                  *)
(***************************************************************************)
EXTENDS Integers, Sequences, FiniteSets, TLC

(***************************************************************************)
(* Characters and character classes                                        *)
(***************************************************************************)
UpperStr == "ABCDEFGHIJKLMNOPQRSTUVWXYZ"
LowerStr == "abcdefghijklmnopqrstuvwxyz"
DigitStr == "0123456789"

Ch(s, i) == SubSeq(s, i, i)

CharsOf(s) == { Ch(s, k) : k \in 1..Len(s) }

\* re.IGNORECASE on ASCII text: two characters match when their lower-case
\* forms are equal.
ToLower(c) ==
    IF \E k \in 1..Len(UpperStr) : Ch(UpperStr, k) = c
    THEN Ch(LowerStr, CHOOSE k \in 1..Len(UpperStr) : Ch(UpperStr, k) = c)
    ELSE c

EqChar(a, b, ic) == IF ic THEN ToLower(a) = ToLower(b) ELSE a = b

\* A class is a set of characters, possibly negated.
Cls(set)    == [neg |-> FALSE, set |-> set]
NotCls(set) == [neg |-> TRUE,  set |-> set]
InClass(c, cls) == (c \in cls.set) # cls.neg

\* \w, \s, \d and . of Python's re (ASCII part; . excludes the line break).
WordChars  == CharsOf(UpperStr) \cup CharsOf(LowerStr) \cup CharsOf(DigitStr) \cup {"_"}
SpaceChars == {" ", "\t", "\n", "\r", "\f"}
W   == Cls(WordChars)
S   == Cls(SpaceChars)
D   == Cls(CharsOf(DigitStr))
Dot == NotCls({"\n"})

\* The backtick.  The lexer of TLA+ has no backtick inside a string, so the
\* character "@" stands for it: like the backtick it is in none of the
\* classes above and in no pattern but rule 1's, and no text of the model
\* holds an "@" of its own.
BT == "@"

(***************************************************************************)
(* Pattern items                                                           *)
(***************************************************************************)
Lit(str)      == [t |-> "lit", str |-> str]
One(cls)      == [t |-> "rep", cls |-> cls, min |-> 1, max |-> 1, greedy |-> TRUE]
Plus(cls)     == [t |-> "rep", cls |-> cls, min |-> 1, max |-> 0, greedy |-> TRUE]
Star(cls)     == [t |-> "rep", cls |-> cls, min |-> 0, max |-> 0, greedy |-> TRUE]
Quest(cls)    == [t |-> "rep", cls |-> cls, min |-> 0, max |-> 1, greedy |-> TRUE]
LazyStar(cls) == [t |-> "rep", cls |-> cls, min |-> 0, max |-> 0, greedy |-> FALSE]
WordB         == [t |-> "b"]
NotAhead(cls) == [t |-> "nla", cls |-> cls]
Open(g)       == [t |-> "open", g |-> g]
Close(g)      == [t |-> "close", g |-> g]
Opt(sub)      == [t |-> "opt", sub |-> sub]
Alt(subs)     == [t |-> "alt", subs |-> subs]

\* Capture groups 1..3 as <<start, end>> (end exclusive); <<0, 0>> is a
\* group that did not take part in the match (None).
NoCaps == << <<0, 0>>, <<0, 0>>, <<0, 0>> >>
Fail   == [ok |-> FALSE, end |-> 0, caps |-> NoCaps]

IsWord(s, i) == i >= 1 /\ i <= Len(s) /\ Ch(s, i) \in WordChars

\* \b at position i: between s[i-1] and s[i], exactly one is a word character.
AtWordB(s, i) == IsWord(s, i - 1) # IsWord(s, i)

LitAt(s, i, str, ic) ==
    /\ i + Len(str) - 1 <= Len(s)
    /\ \A k \in 1..Len(str) : EqChar(Ch(s, i + k - 1), Ch(str, k), ic)

Min(set) == CHOOSE x \in set : \A y \in set : x <= y
Max(set) == CHOOSE x \in set : \A y \in set : x >= y

\* The number of consecutive characters of cls from position i, at most max
\* (max = 0: no limit).
Run(s, i, cls, max) ==
    LET stop == CHOOSE j \in i..(Len(s) + 1) :
                  /\ j > Len(s) \/ ~InClass(Ch(s, j), cls)
                  /\ \A k \in i..(j - 1) : InClass(Ch(s, k), cls)
    IN  IF max # 0 /\ stop - i > max THEN max ELSE stop - i

(***************************************************************************)
(* The backtracking matcher: M(p, s, i, ic, caps) matches the items p at   *)
(* position i of s and answers [ok, end, caps] for the first way to match  *)
(* in re's order of trial.                                                 *)
(***************************************************************************)
RECURSIVE M(_, _, _, _, _)
RECURSIVE TryAlts(_, _, _, _, _, _, _)

\* A quantifier that may take min..n characters: the counts for which the
\* rest of the pattern matches; a greedy one settles on the largest, a lazy
\* one on the smallest.
Takes(rest, s, i, ic, caps, min, n) ==
    { k \in min..n : M(rest, s, i + k, ic, caps).ok }

TryDown(rest, s, i, ic, caps, n, min) ==
    LET ks == Takes(rest, s, i, ic, caps, min, n)
    IN  IF ks = {} THEN Fail ELSE M(rest, s, i + Max(ks), ic, caps)

TryUp(rest, s, i, ic, caps, min, n) ==
    LET ks == Takes(rest, s, i, ic, caps, min, n)
    IN  IF ks = {} THEN Fail ELSE M(rest, s, i + Min(ks), ic, caps)

TryAlts(subs, a, rest, s, i, ic, caps) ==
    IF a > Len(subs) THEN Fail
    ELSE LET r == M(subs[a] \o rest, s, i, ic, caps)
         IN  IF r.ok THEN r ELSE TryAlts(subs, a + 1, rest, s, i, ic, caps)

M(p, s, i, ic, caps) ==
    IF p = <<>> THEN [ok |-> TRUE, end |-> i, caps |-> caps]
    ELSE
      LET h    == Head(p)
          rest == Tail(p)
      IN  CASE h.t = "lit" ->
                 IF LitAt(s, i, h.str, ic)
                 THEN M(rest, s, i + Len(h.str), ic, caps) ELSE Fail
            [] h.t = "rep" ->
                 LET n == Run(s, i, h.cls, h.max)
                 IN  IF n < h.min THEN Fail
                     ELSE IF h.greedy
                          THEN TryDown(rest, s, i, ic, caps, n, h.min)
                          ELSE TryUp(rest, s, i, ic, caps, h.min, n)
            [] h.t = "b" ->
                 IF AtWordB(s, i) THEN M(rest, s, i, ic, caps) ELSE Fail
            [] h.t = "nla" ->
                 IF i <= Len(s) /\ InClass(Ch(s, i), h.cls)
                 THEN Fail ELSE M(rest, s, i, ic, caps)
            [] h.t = "open" ->
                 M(rest, s, i, ic, [caps EXCEPT ![h.g] = <<i, i>>])
            [] h.t = "close" ->
                 M(rest, s, i, ic, [caps EXCEPT ![h.g] = <<caps[h.g][1], i>>])
            [] h.t = "opt" ->
                 LET r == M(h.sub \o rest, s, i, ic, caps)
                 IN  IF r.ok THEN r ELSE M(rest, s, i, ic, caps)
            [] h.t = "alt" ->
                 TryAlts(h.subs, 1, rest, s, i, ic, caps)

\* A match object: the span (end exclusive) and the groups.
MatchAt(p, s, i, ic) ==
    LET r == M(p, s, i, ic, NoCaps)
    IN  [ok |-> r.ok, start |-> i, end |-> r.end, caps |-> r.caps]

\* The positions at which the pattern matches.
Starts(p, s, ic) == { i \in 1..Len(s) : M(p, s, i, ic, NoCaps).ok }

\* re.finditer: the non-overlapping matches, left to right: the leftmost
\* position with a match, then the leftmost one from the end of that match
\* on.  No pattern of the program matches the empty string.
RECURSIVE Scan(_, _, _, _, _)
Scan(p, s, ic, starts, from) ==
    LET left == { i \in starts : i >= from }
    IN  IF left = {} THEN <<>>
        ELSE LET m == MatchAt(p, s, Min(left), ic)
             IN  <<m>> \o Scan(p, s, ic, starts, m.end)

FindAll(p, s, ic) == Scan(p, s, ic, Starts(p, s, ic), 1)

\* m.group(0) and m.group(g); an unmatched group is None, written "".
Group0(s, m) == SubSeq(s, m.start, m.end - 1)
Matched(m, g) == m.caps[g][1] # 0
Group(s, m, g) ==
    IF Matched(m, g) THEN SubSeq(s, m.caps[g][1], m.caps[g][2] - 1) ELSE ""

(***************************************************************************)
(* Replacement templates: literal text, \g, and rule 12's "group or        *)
(* default".                                                               *)
(***************************************************************************)
T(str)       == [t |-> "text", str |-> str]
G(g)         == [t |-> "group", g |-> g]
GOr(g, dflt) == [t |-> "groupor", g |-> g, dflt |-> dflt]

RECURSIVE Expand(_, _, _)
Expand(tpl, s, m) ==
    IF tpl = <<>> THEN ""
    ELSE LET h == Head(tpl)
             x == CASE h.t = "text"    -> h.str
                    [] h.t = "group"   -> Group(s, m, h.g)
                    [] h.t = "groupor" ->
                         IF Group(s, m, h.g) # "" THEN Group(s, m, h.g) ELSE h.dflt
         IN  x \o Expand(Tail(tpl), s, m)

\* re.sub: the text between the matches is kept, each match is replaced by
\* its expanded template.
RECURSIVE Build(_, _, _, _, _)
Build(s, ms, k, pos, tpl) ==
    IF k > Len(ms) THEN SubSeq(s, pos, Len(s))
    ELSE SubSeq(s, pos, ms[k].start - 1) \o Expand(tpl, s, ms[k])
           \o Build(s, ms, k + 1, ms[k].end, tpl)

Sub(p, ic, tpl, s) == Build(s, FindAll(p, s, ic), 1, 1, tpl)

(***************************************************************************)
(* The patterns of convert_mysql_to_postgresql, one per re.sub / compile   *)
(***************************************************************************)
\* r'BT(.*?)BT', BT the backtick
Pat1   == << Lit(BT), Open(1), LazyStar(Dot), Close(1), Lit(BT) >>
\* r'AUTO_?INCREMENT'
Pat2   == << Lit("AUTO"), Quest(Cls({"_"})), Lit("INCREMENT") >>
\* r'\bINT\b(?!\w)'
Pat3a  == << WordB, Lit("INT"), WordB, NotAhead(W) >>
\* r'\bINT\(\d+\)'
Pat3b  == << WordB, Lit("INT("), Plus(D), Lit(")") >>
\* r'\b(TINY|MEDIUM|LONG)TEXT\b'
Pat4   == << WordB, Open(1),
             Alt(<< <<Lit("TINY")>>, <<Lit("MEDIUM")>>, <<Lit("LONG")>> >>),
             Close(1), Lit("TEXT"), WordB >>
\* r'(\w+\s+)(.*?)(\s+UNSIGNED)'
unsigned_pattern ==
    << Open(1), Plus(W), Plus(S), Close(1),
       Open(2), LazyStar(Dot), Close(2),
       Open(3), Plus(S), Lit("UNSIGNED"), Close(3) >>
\* r'\bTINYINT\(1\)'
Pat6   == << WordB, Lit("TINYINT(1)") >>
\* r'\bDATETIME\b'
Pat7   == << WordB, Lit("DATETIME"), WordB >>
\* r'IFNULL\((.*?),(.*?)\)'
Pat8   == << Lit("IFNULL("), Open(1), LazyStar(Dot), Close(1), Lit(","),
             Open(2), LazyStar(Dot), Close(2), Lit(")") >>
\* r'LIMIT\s+(\d+)\s*,\s*(\d+)'
Pat9   == << Lit("LIMIT"), Plus(S), Open(1), Plus(D), Close(1),
             Star(S), Lit(","), Star(S), Open(2), Plus(D), Close(2) >>
\* r'\bNOW\(\)'
Pat10  == << WordB, Lit("NOW()") >>
\* r'SUBSTRING_INDEX\(([^,]+),\s*([^,]+),\s*(\d+)\)'
Pat11  == << Lit("SUBSTRING_INDEX("), Open(1), Plus(NotCls({","})), Close(1),
             Lit(","), Star(S), Open(2), Plus(NotCls({","})), Close(2),
             Lit(","), Star(S), Open(3), Plus(D), Close(3), Lit(")") >>
\* r'GROUP_CONCAT\(([^)]+)(?:\s+SEPARATOR\s+\'([^\']+)\')?\)'
Pat12  == << Lit("GROUP_CONCAT("), Open(1), Plus(NotCls({")"})), Close(1),
             Opt(<< Plus(S), Lit("SEPARATOR"), Plus(S), Lit("'"),
                    Open(2), Plus(NotCls({"'"})), Close(2), Lit("'") >>),
             Lit(")") >>
\* r'\bTRUE\b' and r'\bFALSE\b'
Pat13a == << WordB, Lit("TRUE"), WordB >>
Pat13b == << WordB, Lit("FALSE"), WordB >>
\* r'\sREGEXP\s'
Pat14  == << One(S), Lit("REGEXP"), One(S) >>
\* r'ENGINE\s*=\s*\w+' and r'DEFAULT CHARSET\s*=\s*\w+'
Pat15a == << Lit("ENGINE"), Star(S), Lit("="), Star(S), Plus(W) >>
Pat15b == << Lit("DEFAULT CHARSET"), Star(S), Lit("="), Star(S), Plus(W) >>
\* r'--\s'
Pat16  == << Lit("--"), One(S) >>

(***************************************************************************)
(* Rule 5: the loop over unsigned_pattern.finditer(psql_queries)           *)
(***************************************************************************)
\* str.strip(): white space removed at both ends.
RECURSIVE LStrip(_)
LStrip(s) == IF s # "" /\ Ch(s, 1) \in SpaceChars THEN LStrip(Tail(s)) ELSE s
RECURSIVE RStrip(_)
RStrip(s) ==
    IF s # "" /\ Ch(s, Len(s)) \in SpaceChars
    THEN RStrip(SubSeq(s, 1, Len(s) - 1)) ELSE s
Strip(s) == RStrip(LStrip(s))

\* str.replace(old, new): every non-overlapping occurrence of old, scanned
\* from the left, is replaced (old is never empty here).
Occurrences(s, old) ==
    { i \in 1..(Len(s) - Len(old) + 1) : SubSeq(s, i, i + Len(old) - 1) = old }

RECURSIVE ReplaceFrom(_, _, _, _, _)
ReplaceFrom(s, old, new, occ, from) ==
    LET left == { i \in occ : i >= from }
    IN  IF left = {} THEN SubSeq(s, from, Len(s))
        ELSE SubSeq(s, from, Min(left) - 1) \o new
               \o ReplaceFrom(s, old, new, occ, Min(left) + Len(old))

\* A slip: str.replace(old, new, 1), the first occurrence only.
Replace_FirstOnly(s, old, new) ==
    IF Occurrences(s, old) = {} THEN s
    ELSE SubSeq(s, 1, Min(Occurrences(s, old)) - 1) \o new
           \o SubSeq(s, Min(Occurrences(s, old)) + Len(old), Len(s))

Replace(s, old, new) == ReplaceFrom(s, old, new, Occurrences(s, old), 1)

\* The matches the loop iterates over: finditer keeps the string it was
\* called on, whatever psql_queries is rebound to in the loop's body.
UnsignedMatches(s) == FindAll(unsigned_pattern, s, TRUE)

column_type(snap, m) == Strip(Group(snap, m, 1))
column_name(snap, m) == Strip(Group(snap, m, 2))
\* A slip: the CHECK is put on the type token.
replacement_CheckOnType(snap, m) ==
    column_type(snap, m) \o " " \o column_name(snap, m)
      \o " CHECK (" \o column_type(snap, m) \o " >= 0)"

replacement(snap, m) ==
    column_type(snap, m) \o " " \o column_name(snap, m)
      \o " CHECK (" \o column_name(snap, m) \o " >= 0)"

\* One iteration of the loop's body, on the working text.
Rule5Iter(text, snap, m) == Replace(text, Group0(snap, m), replacement(snap, m))

RECURSIVE Rule5Loop(_, _, _, _)
Rule5Loop(text, snap, ms, k) ==
    IF k > Len(ms) THEN text
    ELSE Rule5Loop(Rule5Iter(text, snap, ms[k]), snap, ms, k + 1)

Rule5(s) == Rule5Loop(s, s, UnsignedMatches(s), 1)

(***************************************************************************)
(* The sixteen rules, and the pipeline as a function of the source text    *)
(***************************************************************************)
Rule1(s)  == Sub(Pat1, FALSE, << T("\""), G(1), T("\"") >>, s)
Rule2(s)  == Sub(Pat2, TRUE, << T("SERIAL") >>, s)
Rule3(s)  == Sub(Pat3b, TRUE, << T("INTEGER") >>,
                 Sub(Pat3a, TRUE, << T("INTEGER") >>, s))
Rule4(s)  == Sub(Pat4, TRUE, << T("TEXT") >>, s)
Rule6(s)  == Sub(Pat6, TRUE, << T("BOOLEAN") >>, s)
Rule7(s)  == Sub(Pat7, TRUE, << T("TIMESTAMP") >>, s)
Rule8(s)  == Sub(Pat8, TRUE, << T("COALESCE("), G(1), T(","), G(2), T(")") >>, s)
Rule9(s)  == Sub(Pat9, TRUE, << T("LIMIT "), G(2), T(" OFFSET "), G(1) >>, s)
Rule10(s) == Sub(Pat10, TRUE, << T("CURRENT_TIMESTAMP") >>, s)
Rule11(s) == Sub(Pat11, TRUE,
                 << T("split_part("), G(1), T(", "), G(2), T(", "), G(3), T(")") >>, s)
Rule12(s) == Sub(Pat12, TRUE,
                 << T("STRING_AGG("), G(1), T(", '"), GOr(2, ","), T("')") >>, s)
Rule13(s) == Sub(Pat13b, TRUE, << T("false") >>,
                 Sub(Pat13a, TRUE, << T("true") >>, s))
Rule14(s) == Sub(Pat14, TRUE, << T(" ~ ") >>, s)
\* A slip: the DEFAULT CHARSET clause is not removed.
Rule15_EngineOnly(s) == Sub(Pat15a, TRUE, << >>, s)

Rule15(s) == Sub(Pat15b, TRUE, << >>,
                 Sub(Pat15a, TRUE, << >>, s))
Rule16(s) == Sub(Pat16, FALSE, << T("-- ") >>, s)

NumRules == 16

ApplyRule(r, s) ==
    CASE r = 1  -> Rule1(s)   [] r = 2  -> Rule2(s)   [] r = 3  -> Rule3(s)
      [] r = 4  -> Rule4(s)   [] r = 5  -> Rule5(s)   [] r = 6  -> Rule6(s)
      [] r = 7  -> Rule7(s)   [] r = 8  -> Rule8(s)   [] r = 9  -> Rule9(s)
      [] r = 10 -> Rule10(s)  [] r = 11 -> Rule11(s)  [] r = 12 -> Rule12(s)
      [] r = 13 -> Rule13(s)  [] r = 14 -> Rule14(s)  [] r = 15 -> Rule15(s)
      [] r = 16 -> Rule16(s)

\* The text after rules 1..r, in order, each on the whole output of the one
\* before it.
\* (The value is ApplyRule(r, Upto(r - 1, s)); the singleton sets make TLC
\* compute a rule's input in full before it applies the rule.)
RECURSIVE Upto(_, _)
Upto(r, s) ==
    IF r = 0 THEN s
    ELSE CHOOSE out \in { ApplyRule(r, prev) : prev \in { Upto(r - 1, s) } } : TRUE

(***************************************************************************)
(* The program as a state machine: main() calling                          *)
(* convert_mysql_to_postgresql(), one step per statement.                  *)
(*                                                                         *)
(* File contents are the texts read() returns and write() is given.  The   *)
(* two paths are the input file and the output file; a file is             *)
(* [exists, data].                                                         *)
(***************************************************************************)
VARIABLES
    pc,             \* the statement about to run
    in_exists,      \* os.path.exists(mysql_file_path)
    mysql_file,     \* the text of the input file
    psql_file,      \* the output file on disk
    verbose,        \* args.verbose
    mysql_queries,  \* the source text, as read
    psql_queries,   \* the working text
    done,           \* the number of rules that have run
    it_text,        \* rule 5: the string finditer was called on
    it_matches,     \* rule 5: its matches
    it_pos,         \* rule 5: the match the loop is at
    error,          \* the exception raised, "none" if none
    printed,        \* what print() wrote
    success,        \* the value convert_mysql_to_postgresql returned
    exit_code       \* the status given to sys.exit, "none" while running

vars == << pc, in_exists, mysql_file, psql_file, verbose, mysql_queries,
           psql_queries, done, it_text, it_matches, it_pos, error, printed,
           success, exit_code >>

\* The number of tokens an input text of InputTexts is made of, at most.
MaxTokens == 2

Tokens == { "a b UNSIGNED", " UNSIGNED", "@", "int", "INT(1)", "--", "\n" }

RECURSIVE Texts(_)
Texts(n) ==
    IF n = 0 THEN { "" }
    ELSE Texts(n - 1) \cup { s \o tok : s \in Texts(n - 1), tok \in Tokens }

InputTexts == Texts(MaxTokens)

\* Input texts of the kinds the rules are written for.
Scenarios ==
    { "GROUP_CONCAT(name SEPARATOR '; ')",
      "GROUP_CONCAT(name)",
      "id INT(11)",
      "age INT UNSIGNED",
      "@int@",
      "SELECT @int@ FROM @t@",
      "@int@ INT(11), @INT",
      "ENGINE=InnoDB DEFAULT CHARSET=utf8",
      "a b UNSIGNED,a b UNSIGNED",
      "a UNSIGNED UNSIGNED UNSIGNED",
      "--\nSELECT 1",
      "id INT AUTO_INCREMENT",
      "SELECT IFNULL(a,b) LIMIT 10, 5",
      "x REGEXP 'a' AND TRUE" }

NoFile  == [exists |-> FALSE, data |-> ""]
OldFile == [exists |-> TRUE,  data |-> "old"]

\* The state as main() calls convert_mysql_to_postgresql: the input file
\* is missing, or holds a scenario text (with or without -v, with or
\* without an output file from before), or holds one of InputTexts.
Init ==
    /\ pc = "check"
    /\ \/ /\ in_exists = FALSE
          /\ mysql_file = ""
          /\ verbose \in BOOLEAN
          /\ psql_file \in {NoFile, OldFile}
       \/ /\ in_exists = TRUE
          /\ mysql_file \in Scenarios
          /\ verbose \in BOOLEAN
          /\ psql_file \in {NoFile, OldFile}
       \/ /\ in_exists = TRUE
          /\ mysql_file \in InputTexts
          /\ verbose = FALSE
          /\ psql_file = NoFile
    /\ mysql_queries = ""
    /\ psql_queries = ""
    /\ done = 0
    /\ it_text = ""
    /\ it_matches = <<>>
    /\ it_pos = 0
    /\ error = "none"
    /\ printed = "none"
    /\ success = FALSE
    /\ exit_code = "none"

\* A slip: no check that the input exists, a missing file reads as empty.
NotFound_NoCheck ==
    /\ pc = "check"
    /\ ~in_exists
    /\ pc' = "read"
    /\ UNCHANGED << in_exists, mysql_file, psql_file, verbose, mysql_queries,
                    psql_queries, done, it_text, it_matches, it_pos, error,
                    printed, success, exit_code >>

\* if not os.path.exists(mysql_file_path): raise FileNotFoundError
NotFound ==
    /\ pc = "check"
    /\ ~in_exists
    /\ error' = "FileNotFoundError"
    /\ pc' = "except"
    /\ UNCHANGED << in_exists, mysql_file, psql_file, verbose, mysql_queries,
                    psql_queries, done, it_text, it_matches, it_pos, printed,
                    success, exit_code >>

Found ==
    /\ pc = "check"
    /\ in_exists
    /\ pc' = "read"
    /\ UNCHANGED << in_exists, mysql_file, psql_file, verbose, mysql_queries,
                    psql_queries, done, it_text, it_matches, it_pos, error,
                    printed, success, exit_code >>

\* mysql_queries = mysql_file.read(); psql_queries = mysql_queries
ReadOK ==
    /\ pc = "read"
    /\ mysql_queries' = mysql_file
    /\ psql_queries' = mysql_file
    /\ pc' = "rules"
    /\ UNCHANGED << in_exists, mysql_file, psql_file, verbose, done, it_text,
                    it_matches, it_pos, error, printed, success, exit_code >>

\* open() or read() raises
ReadFail ==
    /\ pc = "read"
    /\ error' = "ReadError"
    /\ pc' = "except"
    /\ UNCHANGED << in_exists, mysql_file, psql_file, verbose, mysql_queries,
                    psql_queries, done, it_text, it_matches, it_pos, printed,
                    success, exit_code >>

AfterRule(r) == IF r = NumRules THEN "write" ELSE "rules"

\* A slip: the rule is run on the source text, not on the working text.
ApplyStep_OnSource ==
    /\ pc = "rules"
    /\ done + 1 # 5
    /\ psql_queries' = ApplyRule(done + 1, mysql_queries)
    /\ done' = done + 1
    /\ pc' = AfterRule(done + 1)
    /\ UNCHANGED << in_exists, mysql_file, psql_file, verbose, mysql_queries,
                    it_text, it_matches, it_pos, error, printed, success,
                    exit_code >>

\* A slip: rule 3 is left out of the sequence.
ApplyStep_Without3 ==
    /\ pc = "rules"
    /\ done + 1 # 5
    /\ psql_queries' = IF done + 1 = 3 THEN psql_queries
                                        ELSE ApplyRule(done + 1, psql_queries)
    /\ done' = done + 1
    /\ pc' = AfterRule(done + 1)
    /\ UNCHANGED << in_exists, mysql_file, psql_file, verbose, mysql_queries,
                    it_text, it_matches, it_pos, error, printed, success,
                    exit_code >>

\* One rule other than rule 5: psql_queries = re.sub(..., psql_queries)
ApplyStep ==
    /\ pc = "rules"
    /\ done + 1 # 5
    /\ psql_queries' = ApplyRule(done + 1, psql_queries)
    /\ done' = done + 1
    /\ pc' = AfterRule(done + 1)
    /\ UNCHANGED << in_exists, mysql_file, psql_file, verbose, mysql_queries,
                    it_text, it_matches, it_pos, error, printed, success,
                    exit_code >>

\* for match in unsigned_pattern.finditer(psql_queries):
Rule5Begin ==
    /\ pc = "rules"
    /\ done + 1 = 5
    /\ it_text' = psql_queries
    /\ it_matches' = UnsignedMatches(psql_queries)
    /\ it_pos' = 1
    /\ pc' = "loop5"
    /\ UNCHANGED << in_exists, mysql_file, psql_file, verbose, mysql_queries,
                    psql_queries, done, error, printed, success, exit_code >>

\* The loop's body, for the match the loop is at.
Rule5Body ==
    /\ pc = "loop5"
    /\ it_pos <= Len(it_matches)
    /\ psql_queries' = Rule5Iter(psql_queries, it_text, it_matches[it_pos])
    /\ it_pos' = it_pos + 1
    /\ UNCHANGED << pc, in_exists, mysql_file, psql_file, verbose,
                    mysql_queries, done, it_text, it_matches, error, printed,
                    success, exit_code >>

\* The iterator is exhausted.
Rule5End ==
    /\ pc = "loop5"
    /\ it_pos > Len(it_matches)
    /\ done' = done + 1
    /\ it_text' = ""
    /\ it_matches' = <<>>
    /\ it_pos' = 0
    /\ pc' = AfterRule(done + 1)
    /\ UNCHANGED << in_exists, mysql_file, psql_file, verbose, mysql_queries,
                    psql_queries, error, printed, success, exit_code >>

\* open(psql_file_path, 'w'), write, the verbose message, return True
WriteOK ==
    /\ pc = "write"
    /\ psql_file' = [exists |-> TRUE, data |-> psql_queries]
    /\ printed' = IF verbose THEN "success" ELSE printed
    /\ success' = TRUE
    /\ pc' = "return"
    /\ UNCHANGED << in_exists, mysql_file, verbose, mysql_queries,
                    psql_queries, done, it_text, it_matches, it_pos, error,
                    exit_code >>

\* open(..., 'w') raises and the file is as it was, or open has truncated
\* the file and write() raises.
WriteFail ==
    /\ pc = "write"
    /\ psql_file' \in { psql_file, [exists |-> TRUE, data |-> ""] }
    /\ error' = "WriteError"
    /\ pc' = "except"
    /\ UNCHANGED << in_exists, mysql_file, verbose, mysql_queries,
                    psql_queries, done, it_text, it_matches, it_pos, printed,
                    success, exit_code >>

\* except Exception as e: print(...); return False
Except ==
    /\ pc = "except"
    /\ printed' = "error"
    /\ success' = FALSE
    /\ pc' = "return"
    /\ UNCHANGED << in_exists, mysql_file, psql_file, verbose, mysql_queries,
                    psql_queries, done, it_text, it_matches, it_pos, error,
                    exit_code >>

\* sys.exit(0 if success else 1)
Exit ==
    /\ pc = "return"
    /\ exit_code' = IF success THEN 0 ELSE 1
    /\ pc' = "exit"
    /\ UNCHANGED << in_exists, mysql_file, psql_file, verbose, mysql_queries,
                    psql_queries, done, it_text, it_matches, it_pos, error,
                    printed, success >>

Next ==
    \/ NotFound
    \/ Found
    \/ ReadOK
    \/ ReadFail
    \/ ApplyStep
    \/ Rule5Begin
    \/ Rule5Body
    \/ Rule5End
    \/ WriteOK
    \/ WriteFail
    \/ Except
    \/ Exit

Spec == Init /\ [][Next]_vars

(***************************************************************************)
(* Properties                                                              *)
(***************************************************************************)
Contains(s, sub) == Occurrences(s, sub) # {}

\* The run has ended with the output written.
Converted == pc = "exit" /\ success

Output == psql_file.data

\* C1: every run that gets past reading the input applies rules 1 to 16
\* once each, in the order 1, 2, ..., 16, none skipped; rule 1 is given the
\* source text, rule i+1 the whole text rule i produced, and the text
\* written is the text rule 16 produced.
C1_RulesInOrder ==
    [][ /\ done' \in {done, done + 1}
        /\ (pc = "read" /\ pc' = "rules") =>
              (done' = 0 /\ psql_queries' = mysql_file /\ mysql_queries' = mysql_file)
        /\ done' = done + 1 =>
              psql_queries' =
                 ApplyRule(done', IF pc = "loop5" THEN it_text ELSE psql_queries)
        /\ (done' = done /\ psql_queries' # psql_queries) => pc \in {"read", "loop5"}
        /\ pc \in {"rules", "loop5"} => pc' \in {"rules", "loop5", "write"}
        /\ pc' = "write" => done' = NumRules
        /\ (pc' = "return" /\ success') =>
              /\ psql_file'.data = psql_queries
              /\ psql_queries = Upto(NumRules, mysql_file) ]_vars

C1_Witness ==
    Converted /\ done = NumRules /\ Output # mysql_file

\* C2: when the input path does not exist no rule is run, the output file
\* is neither created nor overwritten, an error is reported and the exit
\* code is 1; the exit code is 0 only when the read, all 16 rules and the
\* write have completed, and 1 on a read or write failure.
C2_ExitCodes ==
    [][ /\ ~in_exists => (psql_file' = psql_file /\ done' = 0 /\ pc' # "rules")
        /\ pc' = "exit" =>
              /\ exit_code' \in {0, 1}
              /\ ~in_exists => (exit_code' = 1 /\ printed' = "error")
              /\ exit_code' = 0 =>
                    /\ in_exists /\ error = "none"
                    /\ mysql_queries = mysql_file
                    /\ done = NumRules
                    /\ psql_file = [exists |-> TRUE, data |-> psql_queries]
              /\ error \in {"ReadError", "WriteError"} =>
                    (exit_code' = 1 /\ printed' = "error") ]_vars

C2_Witness ==
    pc = "exit" /\ ~in_exists /\ psql_file = OldFile /\ exit_code = 1

\* C3: GROUP_CONCAT(name SEPARATOR '; ') becomes STRING_AGG(name, '; '), the
\* separator taken from the SEPARATOR clause, and GROUP_CONCAT(name) becomes
\* STRING_AGG(name, ',').
C3_GroupConcat ==
    Converted =>
      /\ mysql_file = "GROUP_CONCAT(name SEPARATOR '; ')" =>
            Output = "STRING_AGG(name, '; ')"
      /\ mysql_file = "GROUP_CONCAT(name)" => Output = "STRING_AGG(name, ',')"

\* C4: rule 3 rewrites every INT(precision) to INTEGER with the precision
\* dropped: after rule 3 there is no 'INTEGER(' followed by a digit that the
\* input did not already hold.
C4_PrecisionDropped ==
    (pc = "rules" /\ done = 3 /\ Starts(<< Lit("INTEGER(") >>, mysql_queries, TRUE) = {})
      => Starts(<< Lit("INTEGER("), One(D) >>, psql_queries, FALSE) = {}

\* C5 (as claimed): 'age INT UNSIGNED' becomes text containing
\* 'age UNSIGNED CHECK (UNSIGNED >= 0)', rule 5 taking 'UNSIGNED' as its
\* middle (name) group.
C5_AsClaimed ==
    mysql_file = "age INT UNSIGNED" =>
      /\ Converted => Contains(Output, "age UNSIGNED CHECK (UNSIGNED >= 0)")
      /\ (pc = "loop5" /\ it_pos = 1) =>
            column_name(it_text, it_matches[1]) = "UNSIGNED"

\* C5 (amended): 'age INT UNSIGNED' becomes 'age INTEGER CHECK (INTEGER >= 0)':
\* rule 3 has made INT INTEGER, and rule 5's one match has 'age' as its type
\* token and 'INTEGER' as its middle (name) group.
C5_AgeIntUnsigned ==
    mysql_file = "age INT UNSIGNED" =>
      /\ Converted => Output = "age INTEGER CHECK (INTEGER >= 0)"
      /\ (pc = "loop5" /\ it_pos = 1) =>
            /\ Len(it_matches) = 1
            /\ column_type(it_text, it_matches[1]) = "age"
            /\ column_name(it_text, it_matches[1]) = "INTEGER"

C5_Witness ==
    Converted /\ mysql_file = "age INT UNSIGNED"

\* C6: the output of a run holds nothing that rule 5's pattern matches: a
\* second run finds no match in rule 5, and rule 5 leaves the text as it is.
C6_NoUnsignedLeft ==
    Converted =>
      /\ UnsignedMatches(Output) = <<>>
      /\ UnsignedMatches(Upto(4, Output)) = <<>>
      /\ Rule5(Upto(4, Output)) = Upto(4, Output)

\* The pipeline with rules 1 and 3 swapped, every other rule in place.
Swap13(r) == IF r = 1 THEN 3 ELSE IF r = 3 THEN 1 ELSE r

RECURSIVE UptoSwapped(_, _)
UptoSwapped(r, s) ==
    IF r = 0 THEN s
    ELSE CHOOSE out \in { ApplyRule(Swap13(r), prev) : prev \in { UptoSwapped(r - 1, s) } } : TRUE

HasBacktickInt(s) == Contains(s, BT \o "int" \o BT)

\* C7 (as claimed): on an input with a backtick-quoted identifier named int,
\* the pipeline with rules 1 and 3 swapped gives another output than the
\* pipeline in its fixed order.
C7_AsClaimed ==
    (Converted /\ HasBacktickInt(mysql_file)) =>
       UptoSwapped(NumRules, mysql_file) # Output

\* C7 (amended): rules 1 and 3 commute: on every input, those with a
\* backtick-quoted identifier named int among them, the pipeline with rules
\* 1 and 3 swapped gives the output of the pipeline in its fixed order.
C7_Rules1And3Commute ==
    Converted => UptoSwapped(NumRules, mysql_file) = Output

C7_Witness ==
    Converted /\ HasBacktickInt(mysql_file) /\ Contains(Output, "\"INTEGER\"")

\* C8 (as claimed): 'ENGINE=InnoDB DEFAULT CHARSET=utf8' becomes the empty
\* string.
C8_AsClaimed ==
    (Converted /\ mysql_file = "ENGINE=InnoDB DEFAULT CHARSET=utf8") => Output = ""

\* C8 (amended): 'ENGINE=InnoDB DEFAULT CHARSET=utf8' becomes one space: rule
\* 15 removes both clauses and leaves the space between them.
C8_EngineCharset ==
    /\ (Converted /\ mysql_file = "ENGINE=InnoDB DEFAULT CHARSET=utf8") => Output = " "
    /\ (pc = "rules" /\ done = 14 /\ mysql_file = "ENGINE=InnoDB DEFAULT CHARSET=utf8") =>
          psql_queries = mysql_file

C8_Witness ==
    Converted /\ mysql_file = "ENGINE=InnoDB DEFAULT CHARSET=utf8"

\* The text with its first occurrence of old replaced, and with each
\* occurrence replaced in turn from the left.
ReplaceFirst(s, old, new) ==
    IF ~Contains(s, old) THEN s
    ELSE LET i == Min(Occurrences(s, old))
         IN  SubSeq(s, 1, i - 1) \o new \o SubSeq(s, i + Len(old), Len(s))

RECURSIVE ReplaceEach(_, _, _)
ReplaceEach(s, old, new) ==
    IF ~Contains(s, old) THEN s
    ELSE LET i == Min(Occurrences(s, old))
         IN  SubSeq(s, 1, i - 1) \o new
               \o ReplaceEach(SubSeq(s, i + Len(old), Len(s)), old, new)

\* The occurrences of old in s, counted from the left without overlap.
RECURSIVE CountFrom(_, _, _)
CountFrom(s, old, from) ==
    LET left == { i \in Occurrences(s, old) : i >= from }
    IN  IF left = {} THEN 0 ELSE 1 + CountFrom(s, old, Min(left) + Len(old))

Count(s, old) == CountFrom(s, old, 1)

IsRule5Iteration == pc = "loop5" /\ it_pos <= Len(it_matches)

\* C9 (as claimed): an iteration of rule 5's loop whose match text occurs
\* more than once in the working text rewrites the first occurrence only.
C9_AsClaimed ==
    [][ (IsRule5Iteration /\ it_pos' = it_pos + 1
           /\ Count(psql_queries, Group0(it_text, it_matches[it_pos])) > 1)
        => psql_queries' =
             ReplaceFirst(psql_queries, Group0(it_text, it_matches[it_pos]),
                          replacement(it_text, it_matches[it_pos])) ]_vars

\* C9 (amended): an iteration of rule 5's loop rewrites every occurrence of
\* its match text in the working text (scanned from the left, without
\* overlap), not the first one only: n occurrences make the text longer by n
\* times what the replacement is longer than the match text.
C9_EveryOccurrence ==
    [][ (IsRule5Iteration /\ it_pos' = it_pos + 1) =>
          LET old == Group0(it_text, it_matches[it_pos])
              new == replacement(it_text, it_matches[it_pos])
          IN  /\ psql_queries' = ReplaceEach(psql_queries, old, new)
              /\ Len(psql_queries') =
                   Len(psql_queries) + Count(psql_queries, old) * (Len(new) - Len(old)) ]_vars

\* The first iteration is over and its match text was there twice or more.
C9_Witness ==
    /\ pc = "loop5"
    /\ it_pos = 2
    /\ Count(it_text, Group0(it_text, it_matches[1])) > 1
    /\ ~Contains(psql_queries, Group0(it_text, it_matches[1]))

\* C10: rule 16 gives back the text it is given: a double hyphen followed
\* by a tab or a line break is left as it was.
C10_Rule16Unchanged ==
    [][ (pc = "rules" /\ done + 1 = NumRules) => psql_queries' = psql_queries ]_vars

=============================================================================
